---- MODULE Spec2Model ----
(***************************************************************************)
(* Model of the aggregation engine of PropertyOneReport                    *)
(* (src/api_functions.py): the provider functions fetch_*_data, their      *)
(* retry loops and exception handlers, and the orchestrator                *)
(* fetch_all_data that calls them one after the other and collects their   *)
(* results in the report dictionary `data`.                                *)
(*                                                                         *)
(* An HTTP exchange is two steps: the request is sent (the provider then   *)
(* blocks in requests.get / requests.post) and an outcome comes back.      *)
(* Outcomes are the classes the code tells apart:                          *)
(*   ok       200, well-formed body with at least one usable entry         *)
(*   empty    200, well-formed body with no entry                          *)
(*   alt      200, entries that the provider filters out (farther than     *)
(*            the radius, or no candidate matching the address)            *)
(*   bad      200, body of an unexpected shape (AttributeError, TypeError, *)
(*            KeyError while reading it)                                   *)
(*   s401 .. s500   that HTTP status                                       *)
(*   timeout  requests.exceptions.Timeout                                  *)
(*   connerr  another requests.exceptions.RequestException                 *)
(***************************************************************************)
EXTENDS Integers, Sequences, FiniteSets, TLC

\* ------------------------------------------------------------------------
\* Bounds of the model
\* ------------------------------------------------------------------------

\* Number of provider calls of one run that may see an outcome other than ok.
MaxFaulty == 2

\* The same number for each of two runs that are compared with each other.
PairFaulty == 1

\* ------------------------------------------------------------------------
\* Report keys and provider functions
\* ------------------------------------------------------------------------

\* The geo-dependent keys, in the order fetch_all_data calls their providers.
GeoOrder ==
  << "crime", "train_station", "bus_stop", "tube_station", "tram_stop",
     "nearest_station", "schools", "healthcare", "lifestyle",
     "listed_building", "conservation_area" >>

\* The whole call sequence of a run whose location lookup succeeded.
Order == << "location" >> \o GeoOrder \o << "epc", "price_paid" >>

GeoKeys == { GeoOrder[i] : i \in 1..Len(GeoOrder) }

Keys == { Order[i] : i \in 1..Len(Order) }

\* fetch_amenities_data is defined but not called by fetch_all_data.
Providers == Keys \cup { "amenities" }

Statuses == { "s401", "s403", "s404", "s429", "s500" }

Outcomes == { "ok", "empty", "alt", "bad", "timeout", "connerr" } \cup Statuses

\* ------------------------------------------------------------------------
\* Provider results (the dictionaries the provider functions return)
\* ------------------------------------------------------------------------

\* status/error_message as in the code; body is the set of non-empty
\* payload items of a success result.
Success(body) == [status |-> "success", msg |-> "", body |-> body]

Error(m) == [status |-> "error", msg |-> m, body |-> {}]

NoneNearby == [status |-> "none_nearby", msg |-> "", body |-> {}]

\* No entry written under the key yet.
Absent == [status |-> "absent", msg |-> "", body |-> {}]

\* The function fell off its end: Python returns None.
ReturnedNone == [status |-> "none", msg |-> "", body |-> {}]

\* The function let an exception escape to its caller.
Raised == [status |-> "raised", msg |-> "", body |-> {}]

StatusText(o) ==
  CASE o = "s401" -> "API returned status code 401"
    [] o = "s403" -> "API returned status code 403"
    [] o = "s404" -> "API returned status code 404"
    [] o = "s429" -> "API returned status code 429"
    [] OTHER      -> "API returned status code 500"

\* ------------------------------------------------------------------------
\* Control flow of a provider body: what one step of it does
\* ------------------------------------------------------------------------

\* `return r`
Return(r) == [act |-> "return", res |-> r, sleep |-> FALSE, add |-> {}, exc |-> ""]

\* The loop body ended without break or return (after time.sleep when sleep);
\* the for statement goes on to the next attempt, if any.
Continue(s) == [act |-> "continue", res |-> Absent, sleep |-> s, add |-> {}, exc |-> ""]

\* `break`, after appending the items `add` to the lists the provider gathers.
Break(add) == [act |-> "break", res |-> Absent, sleep |-> FALSE, add |-> add, exc |-> ""]

\* An exception of class exc leaves the statement.
Raise(e) == [act |-> "raise", res |-> Absent, sleep |-> FALSE, add |-> {}, exc |-> e]

\* The checks before the first request passed.
Proceed == [act |-> "proceed", res |-> Absent, sleep |-> FALSE, add |-> {}, exc |-> ""]

\* Variant of IsA: an except clause catches its own class only.
IsA_Exact(e, cls) == e = cls

\* Python's exception hierarchy: Timeout is a RequestException is an Exception.
IsA(e, cls) ==
  \/ cls = "Exception"
  \/ cls = "RequestException" /\ e \in {"RequestException", "Timeout"}
  \/ cls = "Timeout" /\ e = "Timeout"

\* try: step / except cls: handler
Catch(step, cls, handler) ==
  IF step.act = "raise" /\ IsA(step.exc, cls) THEN handler ELSE step

\* The exception requests raises for an outcome ("" when a response arrives).
\* A body of an unexpected shape raises while the 200 branch reads it.
Thrown(o) ==
  CASE o = "timeout" -> "Timeout"
    [] o = "connerr" -> "RequestException"
    [] o = "bad"     -> "Exception"
    [] OTHER         -> ""

\* Variant of StandardHandlers without the final `except Exception` clause.
StandardHandlers_NoCatchAll(step) ==
  Catch(Catch(step,
    "Timeout", Return(Error("API request timed out"))),
    "RequestException", Return(Error("Unable to connect to API")))

\* The three handlers most providers end with.
StandardHandlers(step) ==
  Catch(Catch(Catch(step,
    "Timeout", Return(Error("API request timed out"))),
    "RequestException", Return(Error("Unable to connect to API"))),
    "Exception", Return(Error("An unexpected error occurred")))

\* Variant of UnexpectedOnly without the handler: the exception escapes.
UnexpectedOnly_Uncaught(step) == step

\* The single handler of the Overpass providers.
UnexpectedOnly(step) ==
  Catch(step, "Exception", Return(Error("An unexpected error occurred")))

\* Variant of NoCoords: the function does not look at its coordinates.
NoCoords_Unchecked(coords, m) == Proceed

\* `if latitude is None or longitude is None: return {'status': 'error', ...}`
NoCoords(coords, m) == IF coords THEN Proceed ELSE Return(Error(m))

\* The status branches of the four TransportAPI place lookups.
TransportApiStatus(o) ==
  CASE o = "s401" -> Return(Error("Invalid TransportAPI credentials"))
    [] o = "s429" -> Return(Error("Rate limit exceeded"))
    [] OTHER      -> Return(Error(StatusText(o)))

\* requests.get / requests.post followed by the code that reads the response:
\* the outcome raises, or the branch `onResponse` of the status test runs.
Respond(o, onResponse) == IF Thrown(o) # "" THEN Raise(Thrown(o)) ELSE onResponse

Is200(o) == o \in {"ok", "empty", "alt", "bad"}

\* ------------------------------------------------------------------------
\* The provider functions: what each does with the outcome o of a request.
\* q is the query the request belongs to, attempt the loop variable of its
\* retry loop, inp the arguments the orchestrator passed.
\* ------------------------------------------------------------------------

\* A body without 'result' yields latitude None; alt is a result whose
\* admin_district is null.
fetch_location_data(o) ==
  StandardHandlers(Respond(o,
    CASE o = "ok"    -> Return(Success({"coords", "admin_district"}))
      [] o = "alt"   -> Return(Success({"coords"}))
      [] o = "empty" -> Return(Success({}))
      [] OTHER       -> Return(Error(StatusText(o)))))

\* months_to_fetch, by the number of the query that fetches the month.
Month == << "dates", "m1", "m2", "m3" >>

\* q = 1 is the crimes-street-dates request: ok lists three months or more,
\* alt one month, empty none.  q = 2..4 are the months, most recent first.
fetch_crime_data(q, attempt, o) ==
  Catch(Catch(Catch(
    IF q = 1
      THEN Respond(o, IF Is200(o)
                        THEN Break({})
                        ELSE Return(Error("Unable to fetch available crime dates")))
      ELSE Catch(Respond(o,
             CASE o = "ok"    -> Break({Month[q]} \cup (IF q = 2 THEN {"latest"} ELSE {}))
               [] o = "empty" -> Break({Month[q]})
               [] OTHER       -> Continue(FALSE)),
             "Timeout", Continue(FALSE)),
    "Timeout", Return(Error("API request timed out after retries"))),
    "RequestException", Return(Error("Unable to connect to API"))),
    "Exception", Return(Error("An unexpected error occurred")))

\* `if not monthly_totals or not latest_month_crimes`: an empty list of the
\* latest month is falsy too.
fetch_crime_data_result(acc) ==
  IF acc \ {"latest"} = {} \/ "latest" \notin acc
    THEN Success({})
    ELSE Success(acc)

fetch_train_station_data(o) ==
  StandardHandlers(Respond(o,
    CASE o = "ok"    -> Return(Success({"stations"}))
      [] o = "empty" -> Return(Success({}))
      [] OTHER       -> TransportApiStatus(o)))

fetch_bus_stop_data(o) ==
  StandardHandlers(Respond(o,
    CASE o = "ok"    -> Return(Success({"stops"}))
      [] o = "empty" -> Return(Success({}))
      [] OTHER       -> TransportApiStatus(o)))

\* alt: every place is farther than THREE_MILES_IN_METERS or has no distance.
fetch_tube_station_data(o) ==
  StandardHandlers(Respond(o,
    CASE o = "ok"               -> Return(Success({"stations"}))
      [] o \in {"empty", "alt"} -> Return(NoneNearby)
      [] OTHER                  -> TransportApiStatus(o)))

fetch_tram_stop_data(o) ==
  StandardHandlers(Respond(o,
    CASE o = "ok"               -> Return(Success({"stops"}))
      [] o \in {"empty", "alt"} -> Return(NoneNearby)
      [] OTHER                  -> TransportApiStatus(o)))

\* admin_district.lower() raises AttributeError when the district is None.
fetch_nearest_station_info(district, o) ==
  StandardHandlers(Respond(o,
    CASE o = "ok"    -> IF district THEN Return(Success({"station_name"}))
                                    ELSE Raise("Exception")
      [] o = "empty" -> Return(Error("No train stations found nearby"))
      [] OTHER       -> Return(Error("Could not find nearby stations"))))

\* The retry loop of fetch_schools_data and fetch_amenities_data; last is the
\* index of the final attempt.
OverpassRetry(last, attempt, o, body) ==
  Catch(Catch(Respond(o,
    CASE o = "ok"    -> Return(Success(body))
      [] o = "empty" -> Return(Success({}))
      [] o = "s429"  -> IF attempt < last
                          THEN Continue(TRUE)
                          ELSE Return(Error("Rate limit exceeded. Please try again later."))
      [] OTHER       -> IF attempt < last
                          THEN Continue(TRUE)
                          ELSE Return(Error(StatusText(o)))),
    "Timeout", IF attempt < last
                 THEN Continue(TRUE)
                 ELSE Return(Error("API request timed out"))),
    "RequestException", IF attempt < last
                 THEN Continue(TRUE)
                 ELSE Return(Error("Unable to connect to API")))

fetch_schools_data(attempt, o) ==
  UnexpectedOnly(OverpassRetry(1, attempt, o, {"schools"}))

fetch_amenities_data(attempt, o) ==
  UnexpectedOnly(OverpassRetry(3, attempt, o, {"banks", "post_offices"}))

\* q = 1 queries the GP surgeries, q = 2 the hospitals.
fetch_healthcare_data(q, attempt, o) ==
  UnexpectedOnly(Catch(Respond(o,
    CASE o = "ok"    -> Break({IF q = 1 THEN "gp_surgeries" ELSE "hospitals"})
      [] o = "empty" -> Break({})
      [] o = "s429"  -> Continue(attempt < 1)
      [] OTHER       -> IF attempt < 1 THEN Continue(TRUE) ELSE Break({})),
    "Timeout", Continue(attempt < 1)))

\* The amenity types in the order they are queried.
AmenityTypes ==
  << "supermarkets", "cafes", "restaurants", "gyms_sports", "gyms_fitness" >>

fetch_amenity_type(q, attempt, o) ==
  Catch(Respond(o,
    CASE o = "ok"    -> Break({AmenityTypes[q]})
      [] o = "empty" -> Break({})
      [] OTHER       -> Continue(attempt < 1)),
    "Timeout", Continue(attempt < 1))

fetch_lifestyle_amenities_data(q, attempt, o) ==
  UnexpectedOnly(fetch_amenity_type(q, attempt, o))

\* gyms = gyms_sports + gyms_fitness
fetch_lifestyle_amenities_data_result(acc) ==
  Success((acc \ {"gyms_sports", "gyms_fitness"})
          \cup (IF acc \cap {"gyms_sports", "gyms_fitness"} # {} THEN {"gyms"} ELSE {}))

\* Valid floating-point coordinates never make the projection raise.
convert_to_british_national_grid(coords) == coords

\* ok: a feature within 50 m whose address address_matches accepts;
\* alt: features, none accepted.  An empty target address matches nothing.
fetch_listed_building_status(address, o) ==
  StandardHandlers(Respond(o,
    CASE o = "ok"               -> IF address THEN Return(Success({"is_listed"}))
                                              ELSE Return(Success({}))
      [] o \in {"empty", "alt"} -> Return(Success({}))
      [] OTHER                  -> Return(Error(StatusText(o)))))

fetch_conservation_area_status(o) ==
  StandardHandlers(Respond(o,
    CASE o = "ok"    -> Return(Success({"in_conservation_area"}))
      [] o = "empty" -> Return(Success({}))
      [] OTHER       -> Return(Error(StatusText(o)))))

\* ok: a row whose address contains the first part of the selected address;
\* alt: rows, none of them does.  An empty first part matches no row.
fetch_epc_data(address, o) ==
  StandardHandlers(Respond(o,
    CASE o = "ok"    -> IF address
                          THEN Return(Success({"energy_rating"}))
                          ELSE Return(Error("No EPC data found for this specific property"))
      [] o = "alt"   -> Return(Error("No EPC data found for this specific property"))
      [] o = "empty" -> Return(Error("No EPC data found for this postcode"))
      [] o = "s404"  -> Return(Error("No EPC data found for this postcode"))
      [] o = "s401"  -> Return(Error("Invalid EPC API key"))
      [] OTHER       -> Return(Error(StatusText(o)))))

\* ok: items, at least one accepted by address_matches; alt: items, none
\* accepted.  The second handler reports str(e).
fetch_price_paid_data(o) ==
  Catch(Catch(Respond(o,
    CASE o = "ok"               -> Return(Success({"transactions"}))
      [] o \in {"empty", "alt"} -> Return(Success({}))
      [] OTHER                  -> Return(Error(StatusText(o)))),
    "Timeout", Return(Error("API request timed out"))),
    "Exception", Return(Error("str(e)")))

\* ------------------------------------------------------------------------
\* Dispatch: the provider function under a report key
\* ------------------------------------------------------------------------

\* The statements of provider p before its first request: the argument checks,
\* and in fetch_schools_data the query string, whose f-string reads the name
\* FIFTEEN_MILES_IN_METERS that the function never binds (NameError).
Precheck(p, args) ==
  CASE p = "crime"      -> NoCoords(args.coords, "No coordinates available for crime lookup")
    [] p = "train_station" -> NoCoords(args.coords, "No coordinates available for station lookup")
    [] p = "bus_stop"   -> NoCoords(args.coords, "No coordinates available for bus stop lookup")
    [] p = "tube_station" -> NoCoords(args.coords, "No coordinates available for tube station lookup")
    [] p = "tram_stop"  -> NoCoords(args.coords, "No coordinates available for tram stop lookup")
    [] p = "nearest_station" -> NoCoords(args.coords, "No coordinates available")
    [] p = "schools"    ->
         IF ~args.coords
           THEN Return(Error("No coordinates available for school lookup"))
           ELSE UnexpectedOnly(Raise("Exception"))
    [] p = "healthcare" -> NoCoords(args.coords, "No coordinates available for healthcare lookup")
    [] p = "amenities"  -> NoCoords(args.coords, "No coordinates available for amenities lookup")
    [] p = "lifestyle"  ->
         NoCoords(args.coords, "No coordinates available for lifestyle amenities lookup")
    [] p \in {"listed_building", "conservation_area"} ->
         IF ~args.coords
           THEN Return(Error("No coordinates available"))
           ELSE IF ~convert_to_british_national_grid(args.coords)
                  THEN Return(Error("Coordinate conversion failed"))
                  ELSE Proceed
    [] p = "epc"        ->
         IF ~args.epc_key THEN Return(Error("EPC API key not configured")) ELSE Proceed
    [] p = "price_paid" ->
         IF ~args.address THEN Return(Error("No postcode or address available")) ELSE Proceed
    [] OTHER            -> Proceed

\* What provider p does with outcome o of the request of query q.
OnOutcome(p, args, q, attempt, o) ==
  CASE p = "location"          -> fetch_location_data(o)
    [] p = "crime"             -> fetch_crime_data(q, attempt, o)
    [] p = "train_station"     -> fetch_train_station_data(o)
    [] p = "bus_stop"          -> fetch_bus_stop_data(o)
    [] p = "tube_station"      -> fetch_tube_station_data(o)
    [] p = "tram_stop"         -> fetch_tram_stop_data(o)
    [] p = "nearest_station"   -> fetch_nearest_station_info(args.district, o)
    [] p = "schools"           -> fetch_schools_data(attempt, o)
    [] p = "healthcare"        -> fetch_healthcare_data(q, attempt, o)
    [] p = "amenities"         -> fetch_amenities_data(attempt, o)
    [] p = "lifestyle"         -> fetch_lifestyle_amenities_data(q, attempt, o)
    [] p = "listed_building"   -> fetch_listed_building_status(args.address, o)
    [] p = "conservation_area" -> fetch_conservation_area_status(o)
    [] p = "epc"               -> fetch_epc_data(args.address, o)
    [] OTHER                   -> fetch_price_paid_data(o)

\* Variant of Attempts: every retry loop runs once more.
Attempts_OneMore(p, q) ==
  CASE p = "crime"      -> IF q = 1 THEN 1 ELSE 3
    [] p = "schools"    -> 3
    [] p = "healthcare" -> 3
    [] p = "lifestyle"  -> 3
    [] p = "amenities"  -> 5
    [] OTHER            -> 1

\* range(n) of the loop around the request of query q (1: no loop).
Attempts(p, q) ==
  CASE p = "crime"      -> IF q = 1 THEN 1 ELSE 2
    [] p = "schools"    -> 2
    [] p = "healthcare" -> 2
    [] p = "lifestyle"  -> 2
    [] p = "amenities"  -> 4
    [] OTHER            -> 1

\* The number of queries p makes one after the other.  fetch_crime_data
\* learns it from the dates response: available_dates[:3].
Queries(p) ==
  CASE p = "healthcare" -> 2
    [] p = "lifestyle"  -> Len(AmenityTypes)
    [] OTHER            -> 1

MonthsToFetch(o) ==
  CASE o = "ok"  -> 3
    [] o = "alt" -> 1
    [] OTHER     -> 0

\* The statements after the last query's loop.  The loops of
\* fetch_schools_data and fetch_amenities_data are followed by nothing:
\* leaving them returns None.
AfterLoops(p, acc) ==
  CASE p = "crime"      -> fetch_crime_data_result(acc)
    [] p = "healthcare" -> Success(acc)
    [] p = "lifestyle"  -> fetch_lifestyle_amenities_data_result(acc)
    [] OTHER            -> ReturnedNone

\* The outcomes a request of provider p can have.  alt is listed where the
\* provider filters the entries of a 200 response or reads an optional field.
OutcomesOf(p, q) ==
  IF \/ p \in {"location", "tube_station", "tram_stop", "listed_building",
               "epc", "price_paid"}
     \/ p = "crime" /\ q = 1
    THEN Outcomes
    ELSE Outcomes \ {"alt"}

\* ------------------------------------------------------------------------
\* State
\* ------------------------------------------------------------------------

VARIABLES
  pc,       \* where fetch_all_data is: "fetch", "else", "done", "aborted";
            \* "standalone" when a provider function is called on its own
  idx,      \* the position in Order of the next call statement
  data,     \* the report dictionary of fetch_all_data
  pv,       \* the frame of the provider function that is executing
  inp,      \* the arguments and configuration of the run
  invoked,  \* the providers whose function has been called
  issued,   \* the providers that have sent an HTTP request
  seen,     \* per provider, the kinds of outcome its requests had
  faulty,   \* the number of deviations from the nominal run so far
  pair,     \* when two runs of one request are compared: which run this is,
            \* the key under observation, the outcomes its provider has met
            \* in this run, and what the first run left behind
  mt        \* the frame of a function followed on its own: a provider that
            \* reads the candidates or the places of a 200 response, the
            \* address matcher, calculate_distance, create_pdf

vars == << pc, idx, data, pv, inp, invoked, issued, seen, faulty, pair, mt >>

\* No candidate list is being read.
NoMatching ==
  [fn |-> "none", at |-> "idle", address |-> "", rows |-> << >>, i |-> 0,
   kept |-> << >>, res |-> Absent]

\* Nothing is left behind by an earlier run.
NoRef == [res |-> Absent, log |-> << >>, loc |-> "ok", clean |-> TRUE]

\* The first run of a request, observing the entry under key w.
FirstRun(w) == [run |-> 1, watch |-> w, log |-> << >>, ref |-> NoRef]

NoArgs == [coords |-> FALSE, district |-> FALSE, address |-> FALSE, epc_key |-> FALSE]

\* No provider function is executing.
Idle ==
  [fn |-> "none", at |-> "idle", args |-> NoArgs, q |-> 0, nq |-> 0,
   attempt |-> 0, acc |-> {}, res |-> Absent, calls |-> 0, allto |-> TRUE,
   tq |-> {}, outs |-> << >>, slept |-> FALSE]

\* The frame of p on entry.  at: "call" before a request, "wait" during it,
\* "sleep" in time.sleep, "exit" at the return.  calls, allto and outs
\* describe the attempts of the current query (outs: their outcomes in
\* order), tq the queries all of whose attempts timed out; slept tells that
\* time.sleep ran since the last request.
Enter(p, args) ==
  [fn |-> p, at |-> "call", args |-> args, q |-> 1, nq |-> Queries(p),
   attempt |-> 0, acc |-> {}, res |-> Absent, calls |-> 0, allto |-> TRUE,
   tq |-> {}, outs |-> << >>, slept |-> FALSE]

\* The query of frame f is over: note it if every attempt timed out.
TimedOutQueries(f) ==
  IF f.allto /\ f.calls > 0 THEN f.tq \cup {[q |-> f.q, n |-> f.calls]} ELSE f.tq

\* The function returns r.
Exit(f, r) == [f EXCEPT !.at = "exit", !.res = r, !.tq = TimedOutQueries(f)]

\* The loop of the current query is left: the next query starts, or the
\* statements after the last loop run.
EndQuery(f) ==
  IF f.q < f.nq
    THEN [f EXCEPT !.q = f.q + 1, !.attempt = 0, !.at = "call", !.calls = 0,
                   !.allto = TRUE, !.tq = TimedOutQueries(f),
                   !.outs = << >>, !.slept = FALSE]
    ELSE Exit(f, AfterLoops(f.fn, f.acc))

\* The for statement takes the next value of range(n), or ends.
NextAttempt(f) ==
  IF f.attempt + 1 < Attempts(f.fn, f.q)
    THEN [f EXCEPT !.attempt = f.attempt + 1, !.at = "call"]
    ELSE EndQuery(f)

\* Frame f after the step `step` of its function.
Apply(f, step) ==
  CASE step.act = "return"   -> Exit(f, step.res)
    [] step.act = "raise"    -> Exit(f, Raised)
    [] step.act = "break"    -> EndQuery([f EXCEPT !.acc = f.acc \cup step.add])
    [] step.act = "continue" -> IF step.sleep THEN [f EXCEPT !.at = "sleep"]
                                              ELSE NextAttempt(f)
    [] OTHER                 -> f

\* ------------------------------------------------------------------------
\* fetch_all_data
\* ------------------------------------------------------------------------

\* Variant of LocationResolved: the if branch is taken for any location result.
LocationResolved_Always(location) == TRUE

\* `if location.get('status') == 'success':`
LocationResolved(location) == location.status = "success"

\* The arguments fetch_all_data passes: latitude, longitude and
\* admin_district from the location result, address and the configuration.
ArgsFrom(location) ==
  [coords   |-> "coords" \in location.body,
   district |-> "admin_district" \in location.body,
   address  |-> inp.address,
   epc_key  |-> inp.epc_key]

\* Variant of CallAt: fetch_crime_data is called before fetch_location_data.
CallAt_CrimeFirst(i) ==
  CASE i = 1 -> "crime"
    [] i = 2 -> "location"
    [] OTHER -> Order[i]

\* Variant of CallAt: fetch_bus_stop_data is called before
\* fetch_train_station_data.
CallAt_BusFirst(i) ==
  CASE i = 3 -> "bus_stop"
    [] i = 4 -> "train_station"
    [] OTHER -> Order[i]

\* The key whose provider fetch_all_data calls at position i.
CallAt(i) == Order[i]

\* Variant of ResumeAt: the EPC and price-paid calls are inside the if branch.
ResumeAt_InsideIf == Len(Order) + 1

\* Variant of ResumeAt: after the else branch the calls of the if branch run.
ResumeAt_AfterLocation == Len(<< "location" >>) + 1

\* The position in Order of the first call after the if statement.
ResumeAt == Len(GeoOrder) + 2

\* A variant of NoCoordinatesEntry that writes the tube and tram entry under
\* every geo-dependent key.
NoCoordinatesEntry_AllNoneNearby(k) == NoneNearby

\* The entries the else branch writes when there are no coordinates.
NoCoordinatesEntry(k) ==
  IF k \in {"tube_station", "tram_stop"}
    THEN NoneNearby
    ELSE Error("No coordinates available")

\* The deviations one run may contain.
Budget == IF pair.watch = "none" THEN MaxFaulty ELSE PairFaulty

\* In the second of two compared runs the postcode service and the services
\* of the observed provider answer as they did in the first run, for as long
\* as the provider asks what it asked then.
Replayed(o) ==
  pair.run = 2 =>
    /\ pv.fn = "location" => o = pair.ref.loc
    /\ (pv.fn = pair.watch /\ Len(pair.log) < Len(pair.ref.log)) =>
         o = pair.ref.log[Len(pair.log) + 1]

\* Variant of CallReturned: a call is started and not waited for.
CallReturned_Detached == TRUE

\* A provider call is a plain function call: the statement after it runs
\* when the function has returned and its result is stored.
CallReturned == pv.at = "idle"

\* fetch_all_data calls the next provider function; the function runs up to
\* its first request or returns at once.
Call ==
  /\ pc = "fetch"
  /\ CallReturned
  /\ idx <= Len(Order)
  /\ LET k == CallAt(idx)
         args == ArgsFrom(data["location"])
     IN /\ pv' = Apply(Enter(k, args), Precheck(k, args))
        /\ invoked' = invoked \cup {k}
  /\ idx' = idx + 1
  /\ UNCHANGED << pc, data, inp, issued, seen, faulty, pair, mt >>

\* requests.get / requests.post is entered.
Send ==
  /\ pv.at = "call"
  /\ pv' = [pv EXCEPT !.at = "wait", !.calls = pv.calls + 1, !.slept = FALSE]
  /\ issued' = issued \cup {pv.fn}
  /\ UNCHANGED << pc, idx, data, inp, invoked, seen, faulty, pair, mt >>

\* The request ends with outcome o and the function handles it.
Receive(o) ==
  /\ pv.at = "wait"
  /\ o \in OutcomesOf(pv.fn, pv.q)
  /\ o = "ok" \/ pc = "standalone" \/ faulty < Budget
  /\ Replayed(o)
  /\ pair' = IF pv.fn = pair.watch THEN [pair EXCEPT !.log = Append(@, o)] ELSE pair
  /\ faulty' = IF o = "ok" \/ pc = "standalone" THEN faulty ELSE faulty + 1
  /\ seen' = [seen EXCEPT ![pv.fn] = @ \cup {o}]
  /\ LET f == [pv EXCEPT !.allto = pv.allto /\ o = "timeout",
                         !.outs = Append(pv.outs, o),
                         !.nq = IF pv.fn = "crime" /\ pv.q = 1
                                  THEN 1 + MonthsToFetch(o) ELSE pv.nq]
     IN pv' = Apply(f, OnOutcome(pv.fn, pv.args, pv.q, pv.attempt, o))
  /\ UNCHANGED << pc, idx, data, inp, invoked, issued, mt >>

\* time.sleep(5) is over.
Wake ==
  /\ pv.at = "sleep"
  /\ pv' = NextAttempt([pv EXCEPT !.slept = TRUE])
  /\ UNCHANGED << pc, idx, data, inp, invoked, issued, seen, faulty, pair, mt >>

\* The provider function returns and fetch_all_data stores the result under
\* its key; an exception the function let escape ends fetch_all_data, and so
\* does location.get on a None result.
Store ==
  /\ pc = "fetch"
  /\ pv.at = "exit"
  /\ LET k == pv.fn
         r == pv.res
     IN IF r = Raised \/ (k = "location" /\ r = ReturnedNone)
          THEN /\ pc' = "aborted"
               /\ UNCHANGED data
          ELSE /\ data' = [data EXCEPT ![k] = r]
               /\ pc' = IF k = "location" /\ ~LocationResolved(r)
                          THEN "else" ELSE "fetch"
  /\ pv' = Idle
  /\ UNCHANGED << idx, inp, invoked, issued, seen, faulty, pair, mt >>

\* The else branch: an entry for every geo-dependent key, no provider called.
NoCoordinates ==
  /\ pc = "else"
  /\ data' = [k \in Keys |-> IF k \in GeoKeys THEN NoCoordinatesEntry(k) ELSE data[k]]
  /\ idx' = ResumeAt
  /\ pc' = "fetch"
  /\ UNCHANGED << pv, inp, invoked, issued, seen, faulty, pair, mt >>

\* `return data`
Finish ==
  /\ pc = "fetch"
  /\ CallReturned
  /\ idx > Len(Order)
  /\ pc' = "done"
  /\ UNCHANGED << idx, data, pv, inp, invoked, issued, seen, faulty, pair, mt >>

\* The deviations from the nominal run that the arguments contain.
InputFaults(i) == (IF i.address THEN 0 ELSE 1) + (IF i.epc_key THEN 0 ELSE 1)

\* A run of fetch_all_data(postcode, address): the address may be empty and
\* the EPC key unconfigured; each counts as a deviation from the nominal run.
Entry(w) ==
  /\ pc = "fetch"
  /\ idx = 1
  /\ data = [k \in Keys |-> Absent]
  /\ pv = Idle
  /\ inp \in [address : BOOLEAN, epc_key : BOOLEAN]
  /\ invoked = {}
  /\ issued = {}
  /\ seen = [p \in Providers |-> {}]
  /\ faulty = InputFaults(inp)
  /\ pair = FirstRun(w)
  /\ mt = NoMatching
  /\ faulty <= Budget

Init == Entry("none")

Next ==
  \/ Call
  \/ Send
  \/ \E o \in Outcomes : Receive(o)
  \/ Wake
  \/ Store
  \/ NoCoordinates
  \/ Finish

Spec == Init /\ [][Next]_vars

\* Python runs the statements of fetch_all_data one after the other and every
\* request ends (with a response or with its timeout).
FairSpec == Spec /\ WF_vars(Next)

\* ------------------------------------------------------------------------
\* A provider function called on its own, with any arguments
\* ------------------------------------------------------------------------

\* The arguments p can be called with; an argument p does not take is fixed.
ArgsOf(p) ==
  { a \in [coords : BOOLEAN, district : BOOLEAN, address : BOOLEAN, epc_key : BOOLEAN] :
      /\ p \in {"location", "epc", "price_paid"} => a.coords
      /\ p # "nearest_station" => a.district
      /\ p \notin {"listed_building", "epc", "price_paid"} => a.address
      /\ p # "epc" => a.epc_key }

InitProvider ==
  /\ pc = "standalone"
  /\ idx = 0
  /\ data = [k \in Keys |-> Absent]
  /\ inp = [address |-> TRUE, epc_key |-> TRUE]
  /\ \E p \in Providers :
       \E args \in ArgsOf(p) :
         /\ pv = Apply(Enter(p, args), Precheck(p, args))
         /\ invoked = {p}
  /\ issued = {}
  /\ seen = [p \in Providers |-> {}]
  /\ faulty = 0
  /\ pair = FirstRun("none")
  /\ mt = NoMatching

NextProvider ==
  \/ Send
  \/ \E o \in Outcomes : Receive(o)
  \/ Wake

ProviderSpec == InitProvider /\ [][NextProvider]_vars

\* ------------------------------------------------------------------------
\* Two runs of fetch_all_data for the same postcode and address
\* ------------------------------------------------------------------------

\* The providers other than the location provider whose requests did not all
\* end well in this run.
Deviant == { k \in Keys \ {"location"} : ~(seen[k] \subseteq {"ok"}) }

\* The first run is over with a successful location result: the same request
\* is served again.  The postcode service and the services of the observed
\* provider will answer as before; any other service answers as it likes.
Rerun ==
  /\ pair.run = 1
  /\ pair.watch # "none"
  /\ pc \in {"done", "aborted"}
  /\ data["location"].status = "success"
  /\ pair' = [run |-> 2, watch |-> pair.watch, log |-> << >>,
              ref |-> [res    |-> data[pair.watch],
                       log    |-> pair.log,
                       loc    |-> CHOOSE o \in seen["location"] : TRUE,
                       clean  |-> Deviant = {}]]
  /\ pc' = "fetch"
  /\ idx' = 1
  /\ data' = [k \in Keys |-> Absent]
  /\ pv' = Idle
  /\ invoked' = {}
  /\ issued' = {}
  /\ seen' = [p \in Providers |-> {}]
  /\ faulty' = InputFaults(inp)
  /\ UNCHANGED << inp, mt >>

InitPair == \E w \in Keys \ {"location"} : Entry(w)

NextPair == Next \/ Rerun

PairSpec == InitPair /\ [][NextPair]_vars

\* ------------------------------------------------------------------------
\* Strings (Python str and re, on the characters addresses are made of)
\* ------------------------------------------------------------------------

Ch(s, i) == SubSeq(s, i, i)

\* `c in alphabet` for a one-character string c.
OneOf(c, alphabet) == \E i \in 1..Len(alphabet) : Ch(alphabet, i) = c

AsciiLower == "abcdefghijklmnopqrstuvwxyz"

AsciiUpper == "ABCDEFGHIJKLMNOPQRSTUVWXYZ"

AsciiDigits == "0123456789"

\* \s
IsSpace(c) == c = " "

\* \w
IsWord(c) == OneOf(c, AsciiLower) \/ OneOf(c, AsciiUpper) \/ OneOf(c, AsciiDigits) \/ c = "_"

\* str.lower()
RECURSIVE str_lower(_)
str_lower(s) ==
  IF s = "" THEN ""
  ELSE LET c == Ch(s, 1)
           l == IF OneOf(c, AsciiUpper)
                  THEN Ch(AsciiLower, CHOOSE i \in 1..Len(AsciiUpper) : Ch(AsciiUpper, i) = c)
                  ELSE c
       IN l \o str_lower(SubSeq(s, 2, Len(s)))

\* re.sub(r'[^\w\s]', ' ', s)
RECURSIVE re_sub_punctuation(_)
re_sub_punctuation(s) ==
  IF s = "" THEN ""
  ELSE LET c == Ch(s, 1)
       IN (IF IsWord(c) \/ IsSpace(c) THEN c ELSE " ")
            \o re_sub_punctuation(SubSeq(s, 2, Len(s)))

\* str.replace(old, new): the non-overlapping occurrences, left to right.
RECURSIVE str_replace(_, _, _)
str_replace(s, old, new) ==
  IF Len(s) < Len(old) THEN s
  ELSE IF SubSeq(s, 1, Len(old)) = old
         THEN new \o str_replace(SubSeq(s, Len(old) + 1, Len(s)), old, new)
         ELSE Ch(s, 1) \o str_replace(SubSeq(s, 2, Len(s)), old, new)

\* `needle in hay`
str_contains(hay, needle) ==
  \E i \in 1..(Len(hay) - Len(needle) + 1) :
    SubSeq(hay, i, i + Len(needle) - 1) = needle

\* str.strip()
RECURSIVE str_strip(_)
str_strip(s) ==
  IF s = "" THEN ""
  ELSE IF IsSpace(Ch(s, 1)) THEN str_strip(SubSeq(s, 2, Len(s)))
  ELSE IF IsSpace(Ch(s, Len(s))) THEN str_strip(SubSeq(s, 1, Len(s) - 1))
  ELSE s

\* The length of the longest prefix of s whose characters satisfy the test
\* `digits` (digits) or `~digits` (non-space characters).
RECURSIVE Run(_, _)
Run(s, digits) ==
  IF s = "" THEN 0
  ELSE IF (digits /\ OneOf(Ch(s, 1), AsciiDigits)) \/ (~digits /\ ~IsSpace(Ch(s, 1)))
         THEN 1 + Run(SubSeq(s, 2, Len(s)), digits)
         ELSE 0

\* str.split(): the words between runs of whitespace, in order.
RECURSIVE str_split(_)
str_split(s) ==
  IF s = "" THEN << >>
  ELSE IF IsSpace(Ch(s, 1)) THEN str_split(SubSeq(s, 2, Len(s)))
  ELSE LET n == Run(s, FALSE)
       IN << SubSeq(s, 1, n) >> \o str_split(SubSeq(s, n + 1, Len(s)))

\* ' '.join(words)
RECURSIVE str_join(_)
str_join(words) ==
  IF words = << >> THEN ""
  ELSE IF Len(words) = 1 THEN words[1]
  ELSE words[1] \o " " \o str_join(Tail(words))

\* set(re.findall(r'\d+', s))
RECURSIVE re_findall_digits(_)
re_findall_digits(s) ==
  IF s = "" THEN {}
  ELSE LET n == Run(s, TRUE)
       IN IF n = 0 THEN re_findall_digits(SubSeq(s, 2, Len(s)))
          ELSE {SubSeq(s, 1, n)} \cup re_findall_digits(SubSeq(s, n + 1, Len(s)))

\* str.split(',')[0]
RECURSIVE FirstPart(_)
FirstPart(s) ==
  IF s = "" \/ Ch(s, 1) = "," THEN ""
  ELSE Ch(s, 1) \o FirstPart(SubSeq(s, 2, Len(s)))

\* ------------------------------------------------------------------------
\* The address matcher
\* ------------------------------------------------------------------------

\* The dictionary `replacements`, in insertion order.
replacements ==
  << << " street ", " st " >>, << " road ", " rd " >>, << " avenue ", " ave " >>,
     << " drive ", " dr " >>, << " lane ", " ln " >>, << " court ", " ct " >>,
     << " place ", " pl " >>, << " square ", " sq " >>, << " terrace ", " ter " >>,
     << " gardens ", " gdns " >>, << " crescent ", " cres " >>, << " close ", " cl " >>,
     << "flat ", "flat" >>, << "apartment ", "apt" >> >>

\* for old, new in replacements.items(): addr = addr.replace(old, new)
RECURSIVE ApplyReplacements(_, _)
ApplyReplacements(addr, i) ==
  IF i > Len(replacements) THEN addr
  ELSE ApplyReplacements(str_replace(addr, replacements[i][1], replacements[i][2]), i + 1)

normalize_address(address) ==
  IF address = "" THEN ""
  ELSE str_join(str_split(ApplyReplacements(re_sub_punctuation(str_lower(address)), 1)))

\* The set of the words of a sequence.
Words(seq) == { seq[i] : i \in 1..Len(seq) }

\* Variant of address_matches: house numbers that differ veto nothing.
address_matches_NoVeto(address1, address2) ==
  IF address1 = "" \/ address2 = "" THEN FALSE
  ELSE LET words1 == Words(str_split(address1))
           words2 == Words(str_split(address2))
           total_words == Cardinality(words1 \cup words2)
           words1_in_address2 == Cardinality({ w \in words1 : str_contains(address2, w) })
       IN IF total_words = 0 THEN FALSE
          ELSE \/ 10 * Cardinality(words1 \cap words2) >= 6 * total_words
               \/ (words1 # {} /\ 10 * words1_in_address2 >= 7 * Cardinality(words1))

\* Variant of address_matches: half of the words in common are enough.
address_matches_Half(address1, address2) ==
  IF address1 = "" \/ address2 = "" THEN FALSE
  ELSE LET numbers1 == re_findall_digits(address1)
           numbers2 == re_findall_digits(address2)
           words1 == Words(str_split(address1))
           words2 == Words(str_split(address2))
           total_words == Cardinality(words1 \cup words2)
           words1_in_address2 == Cardinality({ w \in words1 : str_contains(address2, w) })
       IN IF numbers1 # {} /\ numbers2 # {} /\ numbers1 \cap numbers2 = {} THEN FALSE
          ELSE IF total_words = 0 THEN FALSE
          ELSE \/ 10 * Cardinality(words1 \cap words2) >= 5 * total_words
               \/ (words1 # {} /\ 10 * words1_in_address2 >= 7 * Cardinality(words1))

address_matches(address1, address2) ==
  IF address1 = "" \/ address2 = "" THEN FALSE
  ELSE LET numbers1 == re_findall_digits(address1)
           numbers2 == re_findall_digits(address2)
           words1 == Words(str_split(address1))
           words2 == Words(str_split(address2))
           common_words == words1 \cap words2
           total_words == Cardinality(words1 \cup words2)
           words1_in_address2 == Cardinality({ w \in words1 : str_contains(address2, w) })
       IN IF numbers1 # {} /\ numbers2 # {} /\ numbers1 \cap numbers2 = {} THEN FALSE
          ELSE IF total_words = 0 THEN FALSE
          ELSE \/ 10 * Cardinality(common_words) >= 6 * total_words
               \/ (words1 # {} /\ 10 * words1_in_address2 >= 7 * Cardinality(words1))

\* ------------------------------------------------------------------------
\* The providers that pick the records of the requested property out of the
\* candidates of a 200 response
\* ------------------------------------------------------------------------

\* The largest number of candidates in a response.
MaxRows == 2

\* The addresses a user may have selected ("": none).
RequestedAddresses ==
  { "1 High Street, London", "Flat 1, 20 High Street", "12 Mill Lane, Ely", "" }

\* The address text of a candidate: 'address' of an EPC row, the joined
\* paon/saon/street/town of a sale, the joined Location/FullAddress/ADDRESS
\* of a listed building, the NAME of a conservation area.
CandidateAddresses ==
  { "11 High Street, London", "1 HIGH STREET", "Flat 1, 7 Mill Lane",
    "12 Mill Ln Ely", "Bloomsbury" }

Rows == UNION { [1..n -> CandidateAddresses] : n \in 0..MaxRows }

CandidateProviders == {"epc", "price_paid", "listed_building", "conservation_area"}

\* The test of the EPC loop on row.get('address'); the row has no 'address1'.
epc_row_matches(address, row) ==
  LET first_part == str_strip(FirstPart(address))
      first_part_normalized == str_strip(str_replace(first_part, ",", ""))
      epc_address_normalized == str_strip(str_replace(row, ",", ""))
  IN /\ first_part_normalized # ""
     /\ str_contains(str_lower(epc_address_normalized), str_lower(first_part_normalized))

\* The test provider fn applies to a candidate.  fetch_conservation_area_status
\* applies none: it takes features[0].
RowMatches(fn, address, row) ==
  CASE fn = "epc" -> epc_row_matches(address, row)
    [] fn \in {"price_paid", "listed_building"} ->
         address_matches(normalize_address(address), normalize_address(row))
    [] OTHER -> TRUE

\* The arguments of a provider called with coordinates and this address.
MatchArgs(address) ==
  [coords |-> TRUE, district |-> TRUE, address |-> address # "", epc_key |-> TRUE]

\* The result of provider fn for a 200 response of class o.
ResultFor(fn, address, o) == OnOutcome(fn, MatchArgs(address), 1, 0, o).res

\* The statements before the loop over the candidates.
MatchBegin ==
  /\ mt.at = "check"
  /\ LET step == Precheck(mt.fn, MatchArgs(mt.address))
     IN mt' =
          IF step.act = "return"
            THEN [mt EXCEPT !.at = "exit", !.res = step.res]
          ELSE IF mt.rows = << >>
            THEN [mt EXCEPT !.at = "exit", !.res = ResultFor(mt.fn, mt.address, "empty")]
          ELSE IF mt.fn = "conservation_area"
            THEN [mt EXCEPT !.at = "exit", !.kept = << mt.rows[1] >>,
                            !.res = ResultFor(mt.fn, mt.address, "ok")]
          ELSE [mt EXCEPT !.at = "loop", !.i = 1]
  /\ UNCHANGED << pc, idx, data, pv, inp, invoked, issued, seen, faulty, pair >>

\* One iteration of the loop: fetch_epc_data and fetch_listed_building_status
\* break at the first match, fetch_price_paid_data collects every match.
MatchRow ==
  /\ mt.at = "loop"
  /\ mt.i <= Len(mt.rows)
  /\ LET row == mt.rows[mt.i]
     IN mt' =
          IF RowMatches(mt.fn, mt.address, row)
            THEN [mt EXCEPT !.kept = Append(mt.kept, row),
                            !.i = mt.i + 1,
                            !.at = IF mt.fn = "price_paid" THEN "loop" ELSE "after"]
            ELSE [mt EXCEPT !.i = mt.i + 1]
  /\ UNCHANGED << pc, idx, data, pv, inp, invoked, issued, seen, faulty, pair >>

\* The statements after the loop: the result for the records kept.
MatchEnd ==
  /\ mt.at = "after" \/ (mt.at = "loop" /\ mt.i > Len(mt.rows))
  /\ mt' = [mt EXCEPT !.at = "exit",
                      !.res = ResultFor(mt.fn, mt.address,
                                        IF mt.kept # << >> THEN "ok" ELSE "alt")]
  /\ UNCHANGED << pc, idx, data, pv, inp, invoked, issued, seen, faulty, pair >>

InitMatch ==
  /\ pc = "matching"
  /\ idx = 0
  /\ data = [k \in Keys |-> Absent]
  /\ pv = Idle
  /\ inp = [address |-> TRUE, epc_key |-> TRUE]
  /\ invoked = {}
  /\ issued = {}
  /\ seen = [p \in Providers |-> {}]
  /\ faulty = 0
  /\ pair = FirstRun("none")
  /\ \E fn \in CandidateProviders, address \in RequestedAddresses, rows \in Rows :
       mt = [fn |-> fn, at |-> "check", address |-> address, rows |-> rows,
             i |-> 0, kept |-> << >>, res |-> Absent]

NextMatch == MatchBegin \/ MatchRow \/ MatchEnd

MatchSpec == InitMatch /\ [][NextMatch]_vars

\* ------------------------------------------------------------------------
\* The places of a 200 response: the lists the 'find nearby' providers build
\* ------------------------------------------------------------------------

\* The longest upstream list a run reads.
MaxPlaces == 6

\* Distances in whole meters: two that round to the same hundredth of a mile
\* (the second is THREE_MILES_IN_METERS itself) and one beyond every radius.
Meters == {4820, 4828, 20000}

\* A place of the response.  known is FALSE for a TransportAPI member without
\* the key 'distance' and for an Overpass element without coordinates.
Places ==
  {[known |-> TRUE, m |-> d] : d \in Meters} \cup {[known |-> FALSE, m |-> 0]}

PlaceLists == UNION { [1..n -> Places] : n \in 0..MaxPlaces }

TransportLists ==
  { << "train_station", "stations" >>, << "bus_stop", "stops" >>,
    << "tube_station", "stations" >>, << "tram_stop", "stops" >> }

OverpassLists ==
  { << "schools", "schools" >>,
    << "healthcare", "gp_surgeries" >>, << "healthcare", "hospitals" >>,
    << "lifestyle", "supermarkets" >>, << "lifestyle", "cafes" >>,
    << "lifestyle", "restaurants" >>, << "lifestyle", "gyms" >> }

\* The responses that feed one returned list: gyms is built from the
\* sports_centre response followed by the fitness_centre response.
Responses(list) ==
  IF list = "gyms"
    THEN { << a, b >> : a \in PlaceLists, b \in { l \in PlaceLists : Len(l) <= 1 } }
    ELSE { << a >> : a \in PlaceLists }

\* seq[:n]
Slice(seq, n) == SubSeq(seq, 1, IF Len(seq) < n THEN Len(seq) ELSE n)

\* p.get('distance', float('inf')) <= THREE_MILES_IN_METERS
within_radius_Always(p) == TRUE

\* A variant with the default of station_info: p.get('distance', 0).
within_radius_DefaultZero(p) == ~p.known \/ p.m <= 4828

within_radius(p) == p.known /\ p.m <= 4828

\* [p for p in places if p.get('distance', float('inf')) <= THREE_MILES_IN_METERS]
RECURSIVE nearby_stations(_)
nearby_stations(places) ==
  IF places = << >> THEN << >>
  ELSE IF within_radius(Head(places))
    THEN << Head(places) >> \o nearby_stations(Tail(places))
  ELSE nearby_stations(Tail(places))

\* {'distance': place.get('distance', 0)}
station_info(place) == [distance |-> IF place.known THEN place.m ELSE 0]

\* round(distance_meters * 0.000621371, 2) in hundredths of a mile, the
\* product split so that every intermediate value fits 32 bits.
distance_miles(distance_meters) ==
  LET q == distance_meters \div 1000
      r == distance_meters % 1000
  IN (q * 6213710 + (r * 621371 + 5000000) \div 100) \div 100000

\* The miles above which the loop over the elements skips an element.
MaxMiles(fn) == IF fn = "schools" THEN 5 ELSE 10

\* The loop over the elements of one Overpass response.
RECURSIVE Facilities(_, _)
Facilities(fn, elements) ==
  IF elements = << >> THEN << >>
  ELSE LET element == Head(elements)
           rest == Facilities(fn, Tail(elements))
       IN IF ~element.known THEN rest
          ELSE IF distance_miles(element.m) > 100 * MaxMiles(fn) THEN rest
          ELSE << [distance_miles |-> distance_miles(element.m),
                   distance_meters |-> element.m] >> \o rest

\* The position list.sort gives x in an already sorted list: behind every
\* entry whose key is not greater (the sort is stable).
RECURSIVE InsertByMiles(_, _)
InsertByMiles(x, sorted) ==
  IF sorted = << >> THEN << x >>
  ELSE IF Head(sorted).distance_miles <= x.distance_miles
    THEN << Head(sorted) >> \o InsertByMiles(x, Tail(sorted))
  ELSE << x >> \o sorted

\* seq.sort(key=lambda x: x['distance_miles'])
RECURSIVE SortByMiles(_)
SortByMiles(seq) ==
  IF seq = << >> THEN << >>
  ELSE InsertByMiles(seq[Len(seq)], SortByMiles(SubSeq(seq, 1, Len(seq) - 1)))

\* The slice that ends the list.
Cap(fn) ==
  CASE fn = "schools" -> 10
    [] fn \in {"healthcare", "lifestyle"} -> 5
    [] OTHER -> 3

\* The loop that builds the list of station_info.
Stations(places) == [i \in 1..Len(places) |-> station_info(places[i])]

IsTransport(fn) == fn \in {"train_station", "bus_stop", "tube_station", "tram_stop"}

IsBounded(fn) == fn \in {"tube_station", "tram_stop"}

\* The statements before the list is built: the argument check, and
\* `if not places` of fetch_train_station_data and fetch_bus_stop_data.
NearbyBegin ==
  /\ mt.at = "check"
  /\ LET step == Precheck(mt.fn, MatchArgs(""))
     IN mt' =
          IF step.act = "return"
            THEN [mt EXCEPT !.at = "exit", !.res = step.res]
          ELSE IF IsTransport(mt.fn) /\ ~IsBounded(mt.fn)
            THEN IF mt.rows[1] = << >>
                   THEN [mt EXCEPT !.at = "exit",
                                   !.res = ResultFor(mt.fn, "", "empty")]
                   ELSE [mt EXCEPT !.at = "cap", !.kept = mt.rows[1]]
          ELSE [mt EXCEPT !.at = "collect"]
  /\ UNCHANGED << pc, idx, data, pv, inp, invoked, issued, seen, faulty, pair >>

\* The comprehension of the tube and tram functions with its `if not
\* nearby_stations`, and the loops over the elements of the Overpass
\* responses.
NearbyCollect ==
  /\ mt.at = "collect"
  /\ mt' =
       IF IsBounded(mt.fn)
         THEN IF nearby_stations(mt.rows[1]) = << >>
                THEN [mt EXCEPT !.at = "exit",
                                !.res = ResultFor(mt.fn, "", "alt")]
                ELSE [mt EXCEPT !.at = "cap",
                                !.kept = nearby_stations(mt.rows[1])]
         ELSE [mt EXCEPT !.at = "sort",
                         !.kept = Facilities(mt.fn, mt.rows[1]) \o
                                  (IF Len(mt.rows) > 1
                                     THEN Facilities(mt.fn, mt.rows[2])
                                     ELSE << >>)]
  /\ UNCHANGED << pc, idx, data, pv, inp, invoked, issued, seen, faulty, pair >>

\* The sort of a list of facilities.
NearbySort ==
  /\ mt.at = "sort"
  /\ mt' = [mt EXCEPT !.at = "cap", !.kept = SortByMiles(mt.kept)]
  /\ UNCHANGED << pc, idx, data, pv, inp, invoked, issued, seen, faulty, pair >>

\* The slice, the loop that builds the stations, and the return.
NearbyCap ==
  /\ mt.at = "cap"
  /\ mt' =
       IF IsTransport(mt.fn)
         THEN [mt EXCEPT !.at = "exit",
                         !.kept = Stations(Slice(mt.kept, Cap(mt.fn))),
                         !.res = ResultFor(mt.fn, "", "ok")]
         ELSE [mt EXCEPT !.at = "exit",
                         !.kept = Slice(mt.kept, Cap(mt.fn)),
                         !.res = Success({mt.list})]
  /\ UNCHANGED << pc, idx, data, pv, inp, invoked, issued, seen, faulty, pair >>

InitNearby ==
  /\ pc = "nearby"
  /\ idx = 0
  /\ data = [k \in Keys |-> Absent]
  /\ pv = Idle
  /\ inp = [address |-> TRUE, epc_key |-> TRUE]
  /\ invoked = {}
  /\ issued = {}
  /\ seen = [p \in Providers |-> {}]
  /\ faulty = 0
  /\ pair = FirstRun("none")
  /\ \E l \in TransportLists \cup OverpassLists :
       \E rows \in Responses(l[2]) :
         mt = [fn |-> l[1], list |-> l[2], at |-> "check", rows |-> rows,
               kept |-> << >>, res |-> Absent]

NextNearby == NearbyBegin \/ NearbyCollect \/ NearbySort \/ NearbyCap

NearbySpec == InitNearby /\ [][NextNearby]_vars

\* ------------------------------------------------------------------------
\* The address matcher on its own: a target and a candidate address are
\* normalized and compared
\* ------------------------------------------------------------------------

\* The addresses a target or a candidate is drawn from: empty and
\* punctuation-only addresses, spellings of one address, table words as
\* first, middle, last and repeated token, house numbers that differ, and
\* word sets around the two thresholds.
Addresses ==
  { "", ",", "12 Mill Lane, Ely", "12 mill ln ely", "45 High St London",
    "12 High St London", "High Street", "Street Farm Road",
    "1 Close Close Court", "1 Street Road Ely", "123 Oak Street, Flat 2",
    "High St Ely", "High St York", "hill mill", "chill mills lane",
    "a b c d", "a b c e", "red blue green pink grey", "red blue green" }

\* Nothing has been compared yet.
NotCompared(address1, address2) ==
  [fn |-> "address_matches", at |-> "raw", address1 |-> address1,
   address2 |-> address2, n1 |-> "", n2 |-> "", matched |-> FALSE]

\* target_address_normalized = normalize_address(address)
NormalizeTarget ==
  /\ mt.at = "raw"
  /\ mt' = [mt EXCEPT !.at = "target", !.n1 = normalize_address(mt.address1)]
  /\ UNCHANGED << pc, idx, data, pv, inp, invoked, issued, seen, faulty, pair >>

\* transaction_address_normalized = normalize_address(transaction_address)
NormalizeCandidate ==
  /\ mt.at = "target"
  /\ mt' = [mt EXCEPT !.at = "both", !.n2 = normalize_address(mt.address2)]
  /\ UNCHANGED << pc, idx, data, pv, inp, invoked, issued, seen, faulty, pair >>

\* address_matches(target_address_normalized, transaction_address_normalized)
Compare ==
  /\ mt.at = "both"
  /\ mt' = [mt EXCEPT !.at = "exit", !.matched = address_matches(mt.n1, mt.n2)]
  /\ UNCHANGED << pc, idx, data, pv, inp, invoked, issued, seen, faulty, pair >>

InitAddress ==
  /\ pc = "address"
  /\ idx = 0
  /\ data = [k \in Keys |-> Absent]
  /\ pv = Idle
  /\ inp = [address |-> TRUE, epc_key |-> TRUE]
  /\ invoked = {}
  /\ issued = {}
  /\ seen = [p \in Providers |-> {}]
  /\ faulty = 0
  /\ pair = FirstRun("none")
  /\ \E address1 \in Addresses, address2 \in Addresses :
       mt = NotCompared(address1, address2)

NextAddress == NormalizeTarget \/ NormalizeCandidate \/ Compare

AddressSpec == InitAddress /\ [][NextAddress]_vars

\* ------------------------------------------------------------------------
\* calculate_distance: the haversine formula in fixed point, angles in whole
\* degrees, sines and the value `a` in thousandths
\* ------------------------------------------------------------------------

\* Earth's radius in meters.
R == 6371000

\* math.sin of 0..90 degrees, in thousandths.
SinTable ==
  <<
     0, 17, 35, 52, 70, 87, 105, 122, 139, 156, 174, 191, 208,
     225, 242, 259, 276, 292, 309, 326, 342, 358, 375, 391, 407, 423,
     438, 454, 469, 485, 500, 515, 530, 545, 559, 574, 588, 602, 616,
     629, 643, 656, 669, 682, 695, 707, 719, 731, 743, 755, 766, 777,
     788, 799, 809, 819, 829, 839, 848, 857, 866, 875, 883, 891, 899,
     906, 914, 921, 927, 934, 940, 946, 951, 956, 961, 966, 970, 974,
     978, 982, 985, 988, 990, 993, 995, 996, 998, 999, 999, 1000, 1000 >>

\* math.sin(math.radians(d)) for -180 <= d <= 180
math_sin(d) ==
  LET m == IF d < 0 THEN -d ELSE d
      v == IF m > 90 THEN SinTable[181 - m] ELSE SinTable[m + 1]
  IN IF d < 0 THEN -v ELSE v

\* math.cos(math.radians(d)) for -90 <= d <= 90
math_cos(d) == math_sin(90 - d)

\* math.sqrt of v thousandths, in thousandths.
math_sqrt(v) ==
  CHOOSE r \in 0..1000 : r * r <= v * 1000 /\ (r + 1) * (r + 1) > v * 1000

\* math.atan2(y, x) for y, x >= 0, in whole degrees: the largest angle whose
\* tangent is not above y / x.
math_atan2(y, x) ==
  CHOOSE t \in 0..90 :
    /\ math_sin(t) * x <= math_cos(t) * y
    /\ \A u \in (t + 1)..90 : math_sin(u) * x > math_cos(u) * y

\* Variant of HaversineA: the cosine of the first latitude is taken twice.
HaversineA_OneLatitude(lat1, lon1, lat2, lon2) ==
  LET sin_half_delta_phi == math_sin((lat2 - lat1) \div 2)
      sin_half_delta_lambda == math_sin((lon2 - lon1) \div 2)
  IN (sin_half_delta_phi * sin_half_delta_phi) \div 1000
       + (((math_cos(lat1) * math_cos(lat1)) \div 1000)
            * ((sin_half_delta_lambda * sin_half_delta_lambda) \div 1000)) \div 1000

\* a = sin(delta_phi/2)**2 + cos(phi1) * cos(phi2) * sin(delta_lambda/2)**2
HaversineA(lat1, lon1, lat2, lon2) ==
  LET sin_half_delta_phi == math_sin((lat2 - lat1) \div 2)
      sin_half_delta_lambda == math_sin((lon2 - lon1) \div 2)
  IN (sin_half_delta_phi * sin_half_delta_phi) \div 1000
       + (((math_cos(lat1) * math_cos(lat2)) \div 1000)
            * ((sin_half_delta_lambda * sin_half_delta_lambda) \div 1000)) \div 1000

\* R * c with c = 2 * atan2(sqrt(a), sqrt(1 - a)) turned from degrees to
\* radians: R * pi / 180 meters for each degree.
calculate_distance(lat1, lon1, lat2, lon2) ==
  LET a == HaversineA(lat1, lon1, lat2, lon2)
      c == 2 * math_atan2(math_sqrt(a), math_sqrt(1000 - a))
  IN c * (((R \div 1000) * 31416) \div 1800)

\* The latitudes and longitudes of the points, in even degrees.
Latitudes == {-40, 0, 50, 52, 60}

Longitudes == {-8, 0, 2, 100}

Points == Latitudes \X Longitudes

\* calculate_distance(a, b)
DistanceThere ==
  /\ mt.at = "start"
  /\ mt' = [mt EXCEPT !.at = "there",
                      !.ab = calculate_distance(mt.a[1], mt.a[2], mt.b[1], mt.b[2])]
  /\ UNCHANGED << pc, idx, data, pv, inp, invoked, issued, seen, faulty, pair >>

\* calculate_distance(b, a)
DistanceBack ==
  /\ mt.at = "there"
  /\ mt' = [mt EXCEPT !.at = "exit",
                      !.ba = calculate_distance(mt.b[1], mt.b[2], mt.a[1], mt.a[2])]
  /\ UNCHANGED << pc, idx, data, pv, inp, invoked, issued, seen, faulty, pair >>

InitDistance ==
  /\ pc = "distance"
  /\ idx = 0
  /\ data = [k \in Keys |-> Absent]
  /\ pv = Idle
  /\ inp = [address |-> TRUE, epc_key |-> TRUE]
  /\ invoked = {}
  /\ issued = {}
  /\ seen = [p \in Providers |-> {}]
  /\ faulty = 0
  /\ pair = FirstRun("none")
  /\ \E a \in Points, b \in Points :
       mt = [fn |-> "calculate_distance", at |-> "start", a |-> a, b |-> b,
             ab |-> 0, ba |-> 0]

NextDistance == DistanceThere \/ DistanceBack

DistanceSpec == InitDistance /\ [][NextDistance]_vars

\* ------------------------------------------------------------------------
\* create_pdf: what the report shows for the entry under each key
\* ------------------------------------------------------------------------

\* The keys whose section has a heading and the three branches success,
\* error, else.
PlainSections ==
  { "location", "crime", "nearest_station", "epc", "train_station", "bus_stop",
    "listed_building", "conservation_area", "price_paid" }

\* What create_pdf draws for the entry under key k: "content", "note" (a
\* heading and 'none found'), "unavailable_reason" ('... unavailable:' and
\* the error_message), "unavailable" (no reason), or "omitted" (nothing).
Section(k, entry) ==
  CASE k \in PlainSections ->
         (CASE entry.status = "success" ->
                 IF k \in {"train_station", "bus_stop"} /\ entry.body = {}
                   THEN "note" ELSE "content"
            [] entry.status = "error" -> "unavailable_reason"
            [] OTHER -> "unavailable")
    [] k \in {"tube_station", "tram_stop"} ->
         IF entry.status = "success" /\ entry.body # {} THEN "content" ELSE "omitted"
    [] k \in {"schools", "healthcare"} ->
         (CASE entry.status = "success" -> IF entry.body # {} THEN "content" ELSE "note"
            [] entry.status = "error" -> "unavailable_reason"
            [] OTHER -> "omitted")
    [] OTHER ->
         (CASE entry.status = "success" -> IF entry.body # {} THEN "content" ELSE "omitted"
            [] entry.status = "error" -> "unavailable_reason"
            [] OTHER -> "omitted")

\* app.py passes the report fetch_all_data returned to create_pdf.
CreatePdf ==
  /\ pc = "done"
  /\ pc' = "rendered"
  /\ mt' = [fn |-> "create_pdf", at |-> "exit",
            sections |-> [k \in Keys |-> Section(k, data[k])]]
  /\ UNCHANGED << idx, data, pv, inp, invoked, issued, seen, faulty, pair >>

NextReport == Next \/ CreatePdf

ReportSpec == Init /\ [][NextReport]_vars

\* ------------------------------------------------------------------------
\* fetch_price_paid_data after a 200 response: the transactions it keeps,
\* with their dates
\* ------------------------------------------------------------------------

MaxItems == 3

\* The address the report is asked for.
RequestedProperty == "12 Mill Lane, Ely"

\* propertyAddress of an upstream item: the parts that are present, in the
\* order paon, saon, street, town.
PropertyAddresses ==
  { << "12", "Mill Lane", "Ely" >>, << "11", "High Street", "London" >> }

\* transactionDate of an upstream item; "" stands for an item without one.
TransactionDates == { "", "2019-05-01", "2021-11-30" }

Items == [propertyAddress : PropertyAddresses, transactionDate : TransactionDates]

ItemLists == UNION { [1..n -> Items] : n \in 0..MaxItems }

\* The characters of a date field, in the order of their code points.
CodePoints == "-0123456789Uknow"

\* ord(c)
RECURSIVE ord(_, _)
ord(c, i) ==
  IF i > Len(CodePoints) \/ Ch(CodePoints, i) = c THEN i ELSE ord(c, i + 1)

\* a < b on str: the first differing character decides, a prefix is smaller.
RECURSIVE str_less(_, _)
str_less(a, b) ==
  IF b = "" THEN FALSE
  ELSE IF a = "" THEN TRUE
  ELSE IF Ch(a, 1) = Ch(b, 1)
    THEN str_less(SubSeq(a, 2, Len(a)), SubSeq(b, 2, Len(b)))
  ELSE ord(Ch(a, 1), 1) < ord(Ch(b, 1), 1)

\* The transaction built from a matching item.
Transaction(item) ==
  [date |-> IF item.transactionDate = "" THEN "Unknown" ELSE item.transactionDate,
   address |-> str_join(item.propertyAddress)]

\* The position list.sort(reverse=True) gives x in an already sorted list:
\* behind every entry whose key is not smaller (the sort is stable).
RECURSIVE InsertByDate(_, _)
InsertByDate(x, sorted) ==
  IF sorted = << >> THEN << x >>
  ELSE IF ~str_less(Head(sorted).date, x.date)
    THEN << Head(sorted) >> \o InsertByDate(x, Tail(sorted))
  ELSE << x >> \o sorted

\* property_transactions.sort(key=lambda x: x['date'], reverse=True)
RECURSIVE SortByDate(_)
SortByDate(seq) ==
  IF seq = << >> THEN << >>
  ELSE InsertByDate(seq[Len(seq)], SortByDate(SubSeq(seq, 1, Len(seq) - 1)))

NotFound == [status |-> "success", property_found |-> FALSE, transactions |-> << >>]

Found(transactions) ==
  [status |-> "success", property_found |-> TRUE,
   transactions |-> transactions, most_recent |-> transactions[1]]

\* results = data.get('result', {}).get('items', []), the early return for
\* an empty list, and the normalized target address.
PaidBegin ==
  /\ mt.at = "response"
  /\ mt' = IF mt.results = << >>
             THEN [mt EXCEPT !.at = "exit", !.res = NotFound]
             ELSE [mt EXCEPT !.at = "loop", !.i = 1,
                             !.target = normalize_address(mt.address)]
  /\ UNCHANGED << pc, idx, data, pv, inp, invoked, issued, seen, faulty, pair >>

\* One iteration of `for item in results`.
PaidItem ==
  /\ mt.at = "loop"
  /\ mt.i <= Len(mt.results)
  /\ LET item == mt.results[mt.i]
         transaction_address == str_join(item.propertyAddress)
     IN mt' =
          IF address_matches(mt.target, normalize_address(transaction_address))
            THEN [mt EXCEPT !.i = mt.i + 1,
                            !.property_transactions =
                               Append(mt.property_transactions, Transaction(item))]
            ELSE [mt EXCEPT !.i = mt.i + 1]
  /\ UNCHANGED << pc, idx, data, pv, inp, invoked, issued, seen, faulty, pair >>

\* The sort that follows the loop.
PaidSort ==
  /\ mt.at = "loop"
  /\ mt.i > Len(mt.results)
  /\ mt' = [mt EXCEPT !.at = "sorted",
                      !.property_transactions = SortByDate(mt.property_transactions)]
  /\ UNCHANGED << pc, idx, data, pv, inp, invoked, issued, seen, faulty, pair >>

\* `if property_transactions:` and the two returns.
PaidEnd ==
  /\ mt.at = "sorted"
  /\ mt' = [mt EXCEPT !.at = "exit",
                      !.res = IF mt.property_transactions # << >>
                                THEN Found(mt.property_transactions)
                                ELSE NotFound]
  /\ UNCHANGED << pc, idx, data, pv, inp, invoked, issued, seen, faulty, pair >>

InitPaid ==
  /\ pc = "price_paid"
  /\ idx = 0
  /\ data = [k \in Keys |-> Absent]
  /\ pv = Idle
  /\ inp = [address |-> TRUE, epc_key |-> TRUE]
  /\ invoked = {}
  /\ issued = {}
  /\ seen = [p \in Providers |-> {}]
  /\ faulty = 0
  /\ pair = FirstRun("none")
  /\ \E results \in ItemLists :
       mt = [fn |-> "fetch_price_paid_data", at |-> "response",
             address |-> RequestedProperty, results |-> results, i |-> 0,
             target |-> "", property_transactions |-> << >>, res |-> NotFound]

NextPaid == PaidBegin \/ PaidItem \/ PaidSort \/ PaidEnd

PaidSpec == InitPaid /\ [][NextPaid]_vars

\* ------------------------------------------------------------------------
\* Properties
\* ------------------------------------------------------------------------

\* The location lookup of the finished run did not succeed.
LocationFailed == data["location"] # Absent /\ data["location"].status # "success"

\* C1: when the location provider fails, the returned report holds under every
\* geo-dependent key a result of status 'error' carrying the 'no coordinates'
\* failure.
C1_NoCoordinatesFailure ==
  (pc = "done" /\ LocationFailed) =>
    \A k \in GeoKeys :
      data[k].status = "error" /\ data[k].msg = "No coordinates available"

\* C2: when the location provider fails, no geo-dependent provider function is
\* invoked and no HTTP request is sent on behalf of one.
C2_NoGeoCallWithoutLocation ==
  LocationFailed => GeoKeys \cap (invoked \cup issued) = {}

\* A run whose location lookup failed has returned its report.
C2_Witness ==
  pc = "done" /\ LocationFailed /\ "location" \in issued

\* C3: the EPC and the price-history provider are invoked in every run,
\* whether or not the location lookup succeeded, and the returned report holds
\* their results under 'epc' and 'price_paid'.
C3_PostcodeProvidersAlwaysRun ==
  pc = "done" =>
    /\ {"epc", "price_paid"} \subseteq invoked
    /\ data["epc"].status \in {"success", "error"}
    /\ data["price_paid"].status \in {"success", "error"}

\* The report of a run without coordinates holds a price history.
C3_Witness ==
  /\ pc = "done"
  /\ LocationFailed
  /\ data["price_paid"].status = "success"
  /\ data["epc"] # Absent

C5_Terminates == <>(pc = "done")

\* A run in which as many calls went wrong as the model admits has returned.
C5_Witness ==
  pc = "done" /\ faulty = MaxFaulty /\ data["price_paid"] # Absent

\* The outcomes the observed provider has met in this run are those it met at
\* the same requests of the first run.
SameAnswers ==
  /\ Len(pair.log) <= Len(pair.ref.log)
  /\ \A i \in 1..Len(pair.log) : pair.log[i] = pair.ref.log[i]

\* C6: of two runs for the same postcode with the same successful location
\* result, in which the services of a provider answer alike, the reports hold
\* the same entry under that provider's key, however the other providers
\* fare in either run.
C6_FailureIsolation ==
  (pair.run = 2 /\ pc \in {"done", "aborted"} /\ SameAnswers) =>
    data[pair.watch] = pair.ref.res

\* The first run was nominal, in the second fetch_crime_data failed, and the
\* entry of the provider called right after it is what it was.
C6_Witness ==
  /\ pair.run = 2 /\ pc = "done"
  /\ pair.watch = "train_station"
  /\ pair.ref.clean
  /\ data["crime"].status = "error"
  /\ data["train_station"] = pair.ref.res
  /\ pair.ref.res.status = "success"

\* C7: no geo-dependent provider call begins before the location call has
\* completed: while fetch_location_data runs, and before it is called, no
\* geo-dependent provider has been invoked.
C7_LocationFirst ==
  /\ GeoKeys \cap invoked # {} => data["location"] # Absent
  /\ pv.fn = "location" => GeoKeys \cap invoked = {}

\* The first geo-dependent provider waits for its response.
C7_Witness ==
  pv.fn = "crime" /\ pv.at = "wait" /\ data["location"].status = "success"

\* fetch_all_data invokes the provider of key k now.
Start(k) == Call /\ k \in invoked'

\* The geo-dependent calls begun and not yet stored in the report.
InFlight == { k \in GeoKeys : k \in invoked /\ data[k] = Absent }

Hung(k) == "timeout" \in seen[k] /\ seen[k] \subseteq {"ok", "timeout"}

\* The requests of provider k were all answered promptly and well.
Prompt(k) == seen[k] \subseteq {"ok"}

TimeoutMessages == {"API request timed out", "API request timed out after retries"}

\* C9: when one geo-dependent provider hangs and the others answer promptly,
\* the report holds a Timeout failure for the slow provider and success for
\* every other geo-dependent provider.
C9_DeadlineIsolatesSlowProvider ==
  (pc = "done" /\ inp.address /\ inp.epc_key) =>
    \A s \in GeoKeys :
      (Hung(s) /\ \A k \in Keys \ {s} : Prompt(k)) =>
        /\ data[s].status = "error" /\ data[s].msg \in TimeoutMessages
        /\ \A k \in GeoKeys \ {s} : data[k].status = "success"

\* The queries of the executing provider that are made in a retry loop.
RetriedQueries == { q \in 1..pv.nq : Attempts(pv.fn, q) > 1 }

\* C10: a request that times out on every attempt of its N-attempt retry loop
\* is made exactly N times, and the provider whose retried requests all did so
\* returns a Timeout failure of status 'error'.
C10_TimeoutExhaustion ==
  /\ \A t \in pv.tq :
       Attempts(pv.fn, t.q) > 1 => t.n = Attempts(pv.fn, t.q)
  /\ (/\ pv.at = "exit"
      /\ RetriedQueries # {}
      /\ RetriedQueries \subseteq { t.q : t \in pv.tq }) =>
       pv.res.status = "error" /\ pv.res.msg \in TimeoutMessages

\* The outcomes after which a further attempt is pointless.
NonRetryable == {"s401", "s403", "bad"}

\* C11: once an attempt of a call has ended with 401/403 or with a malformed
\* response, the provider issues no further attempt of that call.
C11_NoRetryAfterNonRetryable ==
  pv.at = "wait" =>
    \A i \in 1..Len(pv.outs) : pv.outs[i] \notin NonRetryable

\* The outcomes after which another attempt may succeed.
Retryable == {"s429", "timeout"}

\* C12: in a retry loop the provider has slept when it starts the attempt that
\* follows a 429 or a timeout, and it sleeps neither after the final attempt
\* nor after a successful one.
C12_SleepBetweenRetries ==
  /\ (pv.at = "call" /\ pv.attempt > 0 /\ pv.outs[Len(pv.outs)] \in Retryable) =>
       pv.slept
  /\ pv.at = "sleep" =>
       /\ pv.attempt + 1 < Attempts(pv.fn, pv.q)
       /\ pv.outs[Len(pv.outs)] \notin {"ok", "empty"}

\* What provider p returns when every request is answered 200 with no entry.
NoNearbyResult(p, args) ==
  LET step == OnOutcome(p, args, 1, 0, "empty")
  IN IF step.act = "return" THEN step.res ELSE AfterLoops(p, {})

\* The error messages that tell the caller of rate limiting.
RateLimitMessages ==
  { "Rate limit exceeded", "Rate limit exceeded. Please try again later.",
    StatusText("s429") }

\* C13: a provider all of whose requests were answered 429 returns a failure
\* that identifies rate limiting, and that result differs from the one it
\* returns for 200 responses without nearby results.
C13_RateLimitedIsReported ==
  (pv.at = "exit" /\ seen[pv.fn] = {"s429"}) =>
    /\ pv.res.status = "error"
    /\ pv.res.msg \in RateLimitMessages
    /\ pv.res # NoNearbyResult(pv.fn, pv.args)

\* C14: a provider that returns because a request failed with a connection
\* error returns the failure 'Unable to connect to API', which is neither the
\* Timeout failure nor the unexpected-error failure.
C14_ConnectionErrorIsUnreachable ==
  (pv.at = "exit" /\ pv.outs # << >> /\ pv.outs[Len(pv.outs)] = "connerr") =>
    pv.res = Error("Unable to connect to API")

\* The providers that look for facilities near the coordinates.
FindNearby ==
  {"train_station", "bus_stop", "nearest_station", "schools", "healthcare", "lifestyle"}

\* C15: a 'find nearby' provider called with coordinates, all of whose
\* requests were answered 200 with an empty result list, returns status
\* 'success' with an empty collection.
C15_EmptyIsSuccess ==
  (/\ pv.at = "exit"
   /\ pv.fn \in FindNearby
   /\ pv.args.coords
   /\ seen[pv.fn] = {"empty"}) =>
    pv.res = Success({})

\* C16: every record that a candidate-list provider reports in a success
\* result is one the address matcher accepts for the requested address.
C16_ReportedRecordsMatch ==
  (mt.at = "exit" /\ mt.res.status = "success") =>
    \A i \in 1..Len(mt.kept) :
      address_matches(normalize_address(mt.address), normalize_address(mt.kept[i]))

\* C17: when the response holds candidates and none matches the requested
\* address, EPC, price history and listed building return a success that
\* marks 'not found for this specific property' and differs from the result
\* for a response without candidates.
C17_NoMatchIsMarkedSuccess ==
  (/\ mt.at = "exit"
   /\ mt.fn \in {"epc", "price_paid", "listed_building"}
   /\ mt.address # ""
   /\ mt.rows # << >>
   /\ mt.kept = << >>) =>
    /\ mt.res.status = "success"
    /\ mt.res # ResultFor(mt.fn, mt.address, "empty")

MetersOf(fn, entry) ==
  IF fn \in {"train_station", "bus_stop", "tube_station", "tram_stop"}
    THEN entry.distance
    ELSE entry.distance_meters

\* C19: in every success result of a 'find nearby' provider the returned
\* list is in ascending order of distance in meters and no longer than the
\* provider's cap: 3 stations or stops, 10 schools, 5 per healthcare or
\* lifestyle category.
C19_SortedAndCapped ==
  (mt.at = "exit" /\ mt.res.status = "success") =>
    /\ Len(mt.kept) <= (CASE mt.fn = "schools" -> 10
                          [] mt.fn \in {"healthcare", "lifestyle"} -> 5
                          [] OTHER -> 3)
    /\ \A i, j \in 1..Len(mt.kept) :
         i < j => MetersOf(mt.fn, mt.kept[i]) <= MetersOf(mt.fn, mt.kept[j])

\* The keys the report is documented to hold.
DocumentedKeys ==
  { "location", "crime", "train_station", "bus_stop", "tube_station",
    "tram_stop", "nearest_station", "schools", "healthcare", "lifestyle",
    "listed_building", "conservation_area", "epc", "price_paid", "flood_risk" }

\* C20: when fetch_all_data has returned, the report holds an entry under
\* every documented key, flood risk included, whatever the providers met.
C20_ReportHasEveryDocumentedKey ==
  pc = "done" =>
    \A k \in DocumentedKeys : k \in DOMAIN data /\ data[k].status # "absent"

\* C21: during one run every report key is written once: an entry that has
\* been written never changes, a provider's result is stored under the key
\* of that provider only, the else branch alone writes the geo-dependent
\* keys without a provider, and at the return every key has its entry.
C21_WriteOnce ==
  [][ /\ \A k \in Keys :
          /\ data[k] # Absent => data'[k] = data[k]
          /\ data'[k] # data[k] =>
                \/ pv.at = "exit" /\ k = pv.fn /\ data'[k] = pv.res
                \/ pc = "else" /\ k \in GeoKeys
      /\ pc' = "done" => \A k \in Keys : data'[k] # Absent ]_vars

C21_Witness ==
  /\ pc = "done"
  /\ data["location"].status = "success"
  /\ data["crime"].status = "success"
  /\ data["schools"].status = "error"
  /\ data["price_paid"].status = "success"
  /\ \A k \in Keys : data[k] # Absent

\* C22: when fetch_all_data has returned the report, no provider function
\* of the run is before a request, inside a request, inside time.sleep or
\* about to return.
C22_NothingOutlivesReport ==
  pc = "done" => pv.at \notin {"call", "wait", "sleep", "exit"}

C22_Witness ==
  /\ pc = "done"
  /\ pv = Idle
  /\ "s429" \in seen["healthcare"]
  /\ "timeout" \in seen["price_paid"]

\* C23: two addresses whose normalized forms are the same string are
\* reported as matching.
C23_IdenticalNormalFormsMatch ==
  (mt.at = "exit" /\ mt.n1 = mt.n2) => mt.matched

\* The digit sequences of the two compared strings veto the match: both
\* strings have some and they share none.
NumericVeto ==
  /\ re_findall_digits(mt.n1) # {}
  /\ re_findall_digits(mt.n2) # {}
  /\ re_findall_digits(mt.n1) \cap re_findall_digits(mt.n2) = {}

\* C24: address_matches returns false whenever both strings contain a digit
\* sequence and the two sets of digit sequences are disjoint, whatever the
\* words they share.
C24_DisjointNumbersVeto ==
  (mt.at = "exit" /\ NumericVeto) => ~mt.matched

C24_Witness ==
  /\ mt.at = "exit"
  /\ mt.n1 = "45 high st london"
  /\ mt.n2 = "12 high st london"
  /\ NumericVeto
  /\ ~mt.matched

\* Ten times the number of the words the target shares with the candidate,
\* and six times the number of the words of either.
OverlapReached ==
  LET words1 == Words(str_split(mt.n1))
      words2 == Words(str_split(mt.n2))
  IN /\ words1 \cup words2 # {}
     /\ 10 * Cardinality(words1 \cap words2) >= 6 * Cardinality(words1 \cup words2)

\* At least seven tenths of the target's words occur as substrings of the
\* candidate string.
ContainmentReached ==
  LET words1 == Words(str_split(mt.n1))
  IN /\ words1 # {}
     /\ 10 * Cardinality({ w \in words1 : str_contains(mt.n2, w) })
          >= 7 * Cardinality(words1)

\* C25: when the numeric veto does not apply, address_matches returns true
\* exactly when the word overlap is at least 0.6 or the fraction of the
\* target's words that occur as substrings of the candidate is at least 0.7.
C25_MatchIffOverlapOrContainment ==
  (mt.at = "exit" /\ ~NumericVeto) =>
    (mt.matched <=> (OverlapReached \/ ContainmentReached))

C25_Witness ==
  /\ mt.at = "exit"
  /\ ~NumericVeto
  /\ mt.n1 = "hill mill"
  /\ mt.n2 = "chill mills lane"
  /\ ~OverlapReached
  /\ ContainmentReached
  /\ mt.matched

\* The words of the substitution table that stand for a whole token.
TableWords ==
  { "street", "road", "avenue", "drive", "lane", "court", "place", "square",
    "terrace", "gardens", "crescent", "close" }

\* s is lowercase text without punctuation whose words are separated by
\* single spaces.
IsClean(s) ==
  /\ s = str_lower(s)
  /\ s = re_sub_punctuation(s)
  /\ s = str_join(str_split(s))

\* C26: normalize_address abbreviates every table word that stands as a
\* whole token, wherever the token stands, so no token of its output is a
\* table word; and its output is lowercase, free of punctuation, with
\* single spaces.
C26_EveryTableTokenAbbreviated ==
  mt.at \in {"target", "both", "exit"} =>
    /\ \A i \in 1..Len(str_split(mt.n1)) : str_split(mt.n1)[i] \notin TableWords
    /\ IsClean(mt.n1)

\* C27: calculate_distance gives the same distance from a to b as from b to
\* a, and the distance from a point to itself is 0.
C27_SymmetricAndZeroOnIdentical ==
  mt.at = "exit" =>
    /\ mt.ab = mt.ba
    /\ mt.a = mt.b => mt.ab = 0

C27_Witness ==
  /\ mt.at = "exit"
  /\ mt.a = << 60, 100 >>
  /\ mt.b = << -40, -8 >>
  /\ mt.ab = mt.ba
  /\ mt.ab > 0

\* C28: in the rendered report every section whose entry has status 'error'
\* shows 'data unavailable' with the reason, and a section is omitted only
\* when its entry is the 'none_nearby' of the tube or tram provider.
C28_FailuresAreShown ==
  pc = "rendered" =>
    \A k \in Keys :
      /\ data[k].status = "error" => mt.sections[k] = "unavailable_reason"
      /\ mt.sections[k] = "omitted" =>
            k \in {"tube_station", "tram_stop"} /\ data[k].status = "none_nearby"

\* C29: every month whose request returned 200 on its first or second
\* attempt is in the monthly_totals of the success result of
\* fetch_crime_data, also when another month failed on both attempts or the
\* most recent month has no crimes.
C29_EveryFetchedMonthReported ==
  (pv.at = "exit" /\ pv.fn = "crime" /\ pv.res.status = "success") =>
    \A q \in 2..4 : Month[q] \in pv.acc => Month[q] \in pv.res.body

\* C30: when the location result has status 'success' but no latitude or
\* longitude, no geo-dependent provider issues a request and every entry a
\* geo-dependent provider has returned has status 'error'.
C30_NoRequestWithoutCoordinates ==
  (data["location"].status = "success" /\ "coords" \notin data["location"].body) =>
    \A k \in GeoKeys :
      /\ k \notin issued
      /\ pv.fn = k => pv.at \notin {"call", "wait", "sleep"}
      /\ data[k] # Absent => data[k].status = "error"

C30_Witness ==
  /\ pc = "done"
  /\ data["location"].status = "success"
  /\ "coords" \notin data["location"].body
  /\ GeoKeys \subseteq invoked
  /\ \A k \in GeoKeys : data[k].status = "error" /\ k \notin issued
  /\ "epc" \in issued

\* The responses with status 200.
Status200 == {"ok", "empty", "alt", "bad"}

C32_GpSurvivesHospitalFailure ==
  (pv.at = "exit" /\ pv.fn = "healthcare" /\ "gp_surgeries" \in pv.acc) =>
    /\ pv.res.status = "success"
    /\ "gp_surgeries" \in pv.res.body

\* C33: normalize_address is idempotent: normalizing a normalized address
\* gives it back, also when two table words stand next to each other.
C33_NormalizeIdempotent ==
  mt.at \in {"target", "both", "exit"} => normalize_address(mt.n1) = mt.n1

\* C34: in a report returned by fetch_all_data every entry has the status
\* success, error or none_nearby; none_nearby stands only under tube_station
\* and tram_stop, and every error entry carries an error message.
C34_EntriesAreDiscriminated ==
  pc = "done" =>
    \A k \in Keys :
      /\ data[k].status \in {"success", "error", "none_nearby"}
      /\ data[k].status = "none_nearby" => k \in {"tube_station", "tram_stop"}
      /\ data[k].status = "error" => data[k].msg # ""

C34_Witness ==
  /\ pc = "done"
  /\ data["tube_station"].status = "none_nearby"
  /\ data["tram_stop"].status = "none_nearby"
  /\ data["crime"] = Error("No coordinates available")
  /\ \E k \in Keys : data[k].status = "success"

\* The value of a string of decimal digits.
RECURSIVE Number(_)
Number(s) ==
  IF s = "" THEN 0
  ELSE 10 * Number(SubSeq(s, 1, Len(s) - 1))
       + (CHOOSE n \in 0..9 : Ch(AsciiDigits, n + 1) = Ch(s, Len(s)))

\* The transaction carries a date of sale.
HasDate(t) == t.date # "Unknown"

\* The day of sale as year, month and day.
DayOf(t) ==
  Number(SubSeq(t.date, 1, 4)) * 10000
  + Number(SubSeq(t.date, 6, 7)) * 100
  + Number(SubSeq(t.date, 9, 10))

\* The upstream items address_matches accepts for the requested address.
Accepted(results) ==
  { i \in 1..Len(results) :
      address_matches(normalize_address(RequestedProperty),
                      normalize_address(str_join(results[i].propertyAddress))) }

\* How often x occurs in seq.
Count(seq, x) == Cardinality({ i \in 1..Len(seq) : seq[i] = x })

\* C35: a success result of fetch_price_paid_data with property_found true
\* holds a non-empty list of transactions, exactly those of the upstream
\* items that address_matches accepts, with the dates of sale descending, and
\* most_recent is the first of them and has the latest date of sale.
C35_MatchedSortedMostRecent ==
  (pc = "price_paid" /\ mt.at = "exit" /\ mt.res.property_found) =>
    LET t == mt.res.transactions
        accepted == Accepted(mt.results)
    IN /\ t # << >>
       /\ Len(t) = Cardinality(accepted)
       /\ \A i \in accepted :
            Count(t, Transaction(mt.results[i])) =
              Cardinality({ j \in accepted :
                              Transaction(mt.results[j]) = Transaction(mt.results[i]) })
       /\ \A i \in 1..Len(t), j \in 1..Len(t) :
            (i < j /\ HasDate(t[i]) /\ HasDate(t[j])) => DayOf(t[i]) >= DayOf(t[j])
       /\ mt.res.most_recent = t[1]
       /\ \A j \in 1..Len(t) :
            HasDate(t[j]) => (HasDate(t[1]) /\ DayOf(t[1]) >= DayOf(t[j]))

\* The positions of the upstream places that carry a distance of at most
\* 4828 m.
Passing(places) ==
  { i \in 1..Len(places) : places[i].known /\ places[i].m <= 4828 }

\* The k-th smallest member of a set of positions.
Nth(S, k) == CHOOSE i \in S : Cardinality({ j \in S : j < i }) = k - 1

====
